---- MODULE Spec2Model ----
(***************************************************************************)
(* A model of swoop's scalar minimisers (src/src/minimise_scalar): the     *)
(* bracketing helper `bracket`, and the public routines `golden`, `brent`  *)
(* and `bounded`.                                                          *)
(*                                                                         *)
(* Numbers.  The code computes in f64.  The model computes on a fixed-     *)
(* point grid: a position or an objective value is an integer number of    *)
(* grid units, products are exact and a quotient is rounded to the nearest *)
(* grid unit.  For bracket, golden and brent the value 1.0 is Scale grid   *)
(* units.  For bounded the grid unit is xatol / Xatol, so its tolerance    *)
(* xatol = 1e-5 is Xatol grid units.  A positive constant smaller than the *)
(* grid (f64::EPSILON, min_tol) becomes one grid unit where the code needs *)
(* it to be positive.  Halves (xmid = 0.5 * (a + b)) are never rounded:    *)
(* the comparisons that read them are stated on the doubled quantities.    *)
(*                                                                         *)
(* The objective.  `evaluate` is a pure function chosen by the caller.     *)
(* The model draws its value at a point the first time the point is        *)
(* evaluated and remembers it in fmap, so that every objective with values *)
(* in FVals is explored and a second evaluation of a point agrees with the *)
(* first.  evals counts the calls of evaluate.                             *)
(***************************************************************************)
EXTENDS Integers, FiniteSets, TLC

\* ------------------------------------------------------------------ bounds
\* grid units per 1.0 (bracket, golden, brent)
Scale == 10
\* the objective is explored on the points -MaxX .. MaxX
MaxX == 2000
\* the objective takes the values 0 .. MaxF
MaxF == 3
\* the largest maxiter a caller passes
MaxIter == 3
\* the largest maxiter a caller passes to bounded
MaxBoundedIter == 5
\* the bounds passed to bounded lie in -MaxBound .. MaxBound
MaxBound == 12
\* xatol (1e-5) in grid units of bounded
Xatol == 3

\* ---------------------------------------------------------------- numbers
Abs(x) == IF x < 0 THEN -x ELSE x

Sgn(x) == IF x > 0 THEN 1 ELSE IF x < 0 THEN -1 ELSE 0

\* n / d, d # 0, rounded to the nearest grid unit (ties away from zero)
Quot(n, d) == Sgn(n) * Sgn(d) * ((2 * Abs(n) + Abs(d)) \div (2 * Abs(d)))

\* c * x for a constant c given in thousandths
PerMille(c, x) == Quot(c * x, 1000)

\* the sign of the product p * q (the code tests such products against 0.0)
SgnMul(p, q) == Sgn(p) * Sgn(q)

\* the magnitude a quotient by 2 * very_small_number (2e-21) has on the grid
Huge == 1000 * MaxX

\* -------------------------------------------------------------- constants
\* gold = 1.618_034, in thousandths
Gold == 1618
\* gr = 0.618_033_99, in thousandths
Gr == 618
\* gc = 1.0 - gr
Gc == 1000 - Gr
\* cg = 0.381_966_0, in thousandths
Cg == 382
\* golden_mean = 0.5 * (3 - sqrt 5) = 0.381966..., in thousandths
GoldenMean == 382
\* bracket_default's grow_limit and maxiter
DefaultGrowLimit == 110
DefaultBracketMaxiter == 1000
\* min_tol = 1.0e-11, error_margin = f64::EPSILON: one grid unit
MinTol == 1
ErrorMargin == 1
\* sqrt_eps = sqrt(2^-52) = 2^-26 = 1 / SqrtEpsInv
SqrtEpsInv == 67108864

\* ------------------------------------------------------------ the objective
FVals == 0 .. MaxF

\* the values evaluate(x) may return: the remembered one, or any value at a
\* new point of the explored range
Vals(fm, x) ==
  IF x \in DOMAIN fm THEN {fm[x]}
  ELSE IF Abs(x) <= MaxX THEN FVals ELSE {}

\* the objective after evaluate(x) returned y
Put(fm, x, y) == [p \in (DOMAIN fm) \cup {x} |-> IF p = x THEN y ELSE fm[p]]

EmptyMap == [p \in {} |-> 0]

\* ------------------------------------------------------------------- state
VARIABLES
  pc,      \* where the call is: idle, bracket, bracketed, golden, brent,
           \* bounded, bstep, done
  call,    \* the routine called and its arguments
  fmap,    \* the objective's values at the points evaluated so far
  evals,   \* the number of calls of evaluate
  br,      \* bracket's locals: xa, xb, xc, fa, fb, fc, fun_calls, iter
  bres,    \* what bracket returned
  st,      \* the locals of golden, brent or bounded
  result   \* what the routine returned

vars == <<pc, call, fmap, evals, br, bres, st, result>>

NoBr == [xa |-> 0, xb |-> 0, xc |-> 0, fa |-> 0, fb |-> 0, fc |-> 0,
         fun_calls |-> 0, iter |-> 0]

\* a ScalarOptimisationResult, or an error, or nothing yet
Res(kind, fun, nfev, success, x) ==
  [kind |-> kind, fun |-> fun, nfev |-> nfev, success |-> success, x |-> x]

Err(kind) == Res(kind, 0, 0, FALSE, 0)

NoRes == Err("none")

\* a BracketResult, or an error, or nothing yet
BRes(kind, xa, xb, xc, calls) ==
  [kind |-> kind, xa |-> xa, xb |-> xb, xc |-> xc, fun_calls |-> calls]

NoBRes == BRes("none", 0, 0, 0, 0)

\* Option<f64>, the value in tenths
None == [some |-> FALSE, val |-> 0]

Some(t) == [some |-> TRUE, val |-> t]

NoCall == [routine |-> "none", xtol |-> None, maxiter |-> 0, lower |-> 0, upper |-> 0,
           xa |-> 0, xb |-> 0, grow_limit |-> 0, bmaxiter |-> 0]

Init ==
  /\ pc = "idle"
  /\ call = NoCall
  /\ fmap = EmptyMap
  /\ evals = 0
  /\ br = NoBr
  /\ bres = NoBRes
  /\ st = [none |-> 0]
  /\ result = NoRes

\* ----------------------------------------------------------------- bracket
\* fa < fb: the seeds are swapped so that the search goes downhill
SeedsSwapped(fa, fb) == fa < fb

\* xc extrapolated from the seeds as given, before they are ordered
BracketEnterEarlyXc(xa0, xb0, ya, yb, yc) ==
  LET sw == SeedsSwapped(ya, yb)
  IN [xa |-> IF sw THEN xb0 ELSE xa0, xb |-> IF sw THEN xa0 ELSE xb0,
      xc |-> xb0 + PerMille(Gold, xb0 - xa0),
      fa |-> IF sw THEN yb ELSE ya, fb |-> IF sw THEN ya ELSE yb,
      fc |-> yc, fun_calls |-> 3, iter |-> 0]

\* mod.rs 64-75: evaluate the seeds, order them, extrapolate xc
BracketEnter(xa0, xb0, ya, yb, yc) ==
  LET sw == SeedsSwapped(ya, yb)
      xa == IF sw THEN xb0 ELSE xa0
      xb == IF sw THEN xa0 ELSE xb0
      fa == IF sw THEN yb ELSE ya
      fb == IF sw THEN ya ELSE yb
  IN [xa |-> xa, xb |-> xb, xc |-> xb + PerMille(Gold, xb - xa),
      fa |-> fa, fb |-> fb, fc |-> yc, fun_calls |-> 3, iter |-> 0]

\* the third point bracket evaluates first
FirstXc(xa0, xb0, ya, yb) == BracketEnter(xa0, xb0, ya, yb, 0).xc

\* the start of bracket: three evaluations
BracketStart(xa0, xb0) ==
  \E ya \in Vals(fmap, xa0) :
    LET fm1 == Put(fmap, xa0, ya) IN
    \E yb \in Vals(fm1, xb0) :
      LET fm2 == Put(fm1, xb0, yb)
          xc0 == FirstXc(xa0, xb0, ya, yb) IN
      \E yc \in Vals(fm2, xc0) :
        /\ fmap' = Put(fm2, xc0, yc)
        /\ evals' = evals + 3
        /\ br' = BracketEnter(xa0, xb0, ya, yb, yc)
        /\ bres' = NoBRes
        /\ pc' = "bracket"

\* mod.rs 87: the loop condition
BracketContinues(b) == b.fc < b.fb

\* mod.rs 101: the budget test
BracketBudgetExceeded(iter, maxiter) == iter > maxiter

\* mod.rs 88-98: the extremum of the parabola through the three points
ParabolaW(b) ==
  LET tmp1 == (b.xb - b.xa) * (b.fb - b.fc)
      tmp2 == (b.xb - b.xc) * (b.fb - b.fa)
      val == tmp2 - tmp1
      numer == (b.xb - b.xc) * tmp2 - (b.xb - b.xa) * tmp1
  IN IF val = 0 THEN b.xb - Sgn(numer) * Huge
     ELSE b.xb - Quot(numer, 2 * val)

\* mod.rs 99
Wlim(b, grow_limit) == b.xb + grow_limit * (b.xc - b.xb)

\* mod.rs 127, 140, 147: the golden-ratio expansion beyond xc
Expand(xb, xc) == xc + PerMille(Gold, xc - xb)

\* mod.rs 151-156: the window moves on to (xb, xc, w)
Shift(b, w, fw, calls, iter) ==
  [xa |-> b.xb, xb |-> b.xc, xc |-> w, fa |-> b.fb, fb |-> b.fc, fc |-> fw,
   fun_calls |-> calls, iter |-> iter]

BracketOk(xa, xb, xc, calls) == BRes("Ok", xa, xb, xc, calls)

BracketReturns(r, b, fm, n) ==
  /\ bres' = r
  /\ br' = b
  /\ fmap' = fm
  /\ evals' = evals + n
  /\ pc' = "bracketed"

BracketGoesOn(b, fm, n) ==
  /\ br' = b
  /\ fmap' = fm
  /\ evals' = evals + n
  /\ bres' = NoBRes
  /\ pc' = "bracket"

\* mod.rs 87-157: one pass of the while loop
BracketIter ==
  /\ pc = "bracket"
  /\ BracketContinues(br)
  /\ UNCHANGED <<call, st, result>>
  /\ LET w == ParabolaW(br)
         wlim == Wlim(br, call.grow_limit)
         it == br.iter + 1
         b1 == [br EXCEPT !.iter = it]
         c1 == br.fun_calls + 1
         c2 == br.fun_calls + 2
     IN
     IF BracketBudgetExceeded(br.iter, call.bmaxiter)
     THEN BracketReturns(BRes("MaxIterExceeded", 0, 0, 0, 0), br, fmap, 0)
     ELSE IF SgnMul(w - br.xc, br.xb - w) > 0
     THEN \E fw \in Vals(fmap, w) :
            LET fm1 == Put(fmap, w, fw) IN
            IF fw < br.fc
            THEN BracketReturns(BracketOk(br.xb, w, br.xc, c1),
                                [b1 EXCEPT !.xa = br.xb, !.xb = w, !.fun_calls = c1],
                                fm1, 1)
            ELSE IF fw > br.fb
            THEN BracketReturns(BracketOk(br.xa, br.xb, w, c1),
                                [b1 EXCEPT !.xc = w, !.fun_calls = c1], fm1, 1)
            ELSE LET w2 == Expand(br.xb, br.xc) IN
                 \E fw2 \in Vals(fm1, w2) :
                   BracketGoesOn(Shift(br, w2, fw2, c2, it), Put(fm1, w2, fw2), 2)
     ELSE IF SgnMul(w - wlim, wlim - br.xc) >= 0
     THEN \E fw \in Vals(fmap, wlim) :
            BracketGoesOn(Shift(br, wlim, fw, c1, it), Put(fmap, wlim, fw), 1)
     ELSE IF SgnMul(w - wlim, br.xc - w) > 0
     THEN \E fw \in Vals(fmap, w) :
            LET fm1 == Put(fmap, w, fw) IN
            IF fw < br.fc
            THEN LET w2 == Expand(br.xc, w)
                     b2 == [br EXCEPT !.xb = br.xc, !.xc = w, !.fb = br.fc, !.fc = fw]
                 IN \E fw2 \in Vals(fm1, w2) :
                      BracketGoesOn(Shift(b2, w2, fw2, c2, it), Put(fm1, w2, fw2), 2)
            ELSE BracketGoesOn(Shift(br, w, fw, c1, it), fm1, 1)
     ELSE LET w2 == Expand(br.xb, br.xc) IN
          \E fw \in Vals(fmap, w2) :
            BracketGoesOn(Shift(br, w2, fw, c1, it), Put(fmap, w2, fw), 1)

\* mod.rs 159-162: the loop ended, the window is returned
BracketExit ==
  /\ pc = "bracket"
  /\ ~BracketContinues(br)
  /\ BracketReturns(BracketOk(br.xa, br.xb, br.xc, br.fun_calls), br, fmap, 0)
  /\ UNCHANGED <<call, st, result>>

\* ------------------------------------------------------------------- calls
\* the seed pairs bracket is called with directly
BracketSeeds == {<<0, Scale>>, <<Scale, 0>>, <<-Scale, Scale>>, <<0, 0>>}

\* the grow limits bracket is called with directly
GrowLimits == {2, DefaultGrowLimit}

\* the tolerances passed as xtol, in tenths
XtolArgs == {None, Some(-5), Some(5), Some(20)}

\* mod.rs 53-75: bracket(objective, xa, xb, grow_limit, maxiter)
CallBracket(xa0, xb0, gl, mi) ==
  /\ pc = "idle"
  /\ call' = [NoCall EXCEPT !.routine = "bracket", !.xa = xa0, !.xb = xb0,
                            !.grow_limit = gl, !.bmaxiter = mi]
  /\ BracketStart(xa0, xb0)
  /\ UNCHANGED <<st, result>>

\* bracket returns to the caller that called it directly
BracketDone ==
  /\ pc = "bracketed"
  /\ call.routine = "bracket"
  /\ pc' = "done"
  /\ result' = Res(bres.kind, 0, bres.fun_calls, bres.kind = "Ok", bres.xb)
  /\ UNCHANGED <<call, fmap, evals, br, bres, st>>

\* mod.rs 169-173: bracket_default
BracketDefault(c) ==
  [c EXCEPT !.xa = 0, !.xb = Scale, !.grow_limit = DefaultGrowLimit,
            !.bmaxiter = DefaultBracketMaxiter]

\* the validation left out
XtolNeverInvalid(xtol) == FALSE

\* golden.rs 20-26, brent.rs 24-30: a supplied tolerance must not be negative
XtolInvalid(xtol) == xtol.some /\ xtol.val < 0

\* ------------------------------------------------------------------ golden
\* golden.rs 28: the default tolerance 2.22e-16, in tenths on the grid
GoldenDefaultTol == 0

\* golden.rs 19-29
GoldenTol(xtol) == IF xtol.some THEN xtol.val ELSE GoldenDefaultTol

\* golden.rs 14-31: the tolerance is validated, then bracket_default is called
CallGolden(xtol, mi) ==
  /\ pc = "idle"
  /\ call' = BracketDefault([NoCall EXCEPT !.routine = "golden", !.xtol = xtol,
                                           !.maxiter = mi])
  /\ IF XtolInvalid(xtol)
     THEN /\ result' = Err("ArgumentError")
          /\ pc' = "done"
          /\ UNCHANGED <<fmap, evals, br, bres, st>>
     ELSE /\ BracketStart(0, Scale)
          /\ UNCHANGED <<st, result>>

\* golden.rs 43-49: the interior points of the first window
GoldenX1(xa, xb, xc) ==
  IF Abs(xc - xb) > Abs(xb - xa) THEN xb ELSE xb - PerMille(Gc, xb - xa)

GoldenX2(xa, xb, xc) ==
  IF Abs(xc - xb) > Abs(xb - xa) THEN xb + PerMille(Gc, xc - xb) ELSE xb

\* golden.rs 53: what the two first evaluations add to fun_calls
GoldenFirstCalls == 1

\* golden.rs 31-55: the bracket is taken over (an error is passed on by `?`)
GoldenInit ==
  /\ pc = "bracketed"
  /\ call.routine = "golden"
  /\ UNCHANGED <<call, br, bres>>
  /\ IF bres.kind # "Ok"
     THEN /\ result' = Err(bres.kind)
          /\ pc' = "done"
          /\ UNCHANGED <<fmap, evals, st>>
     ELSE LET x1 == GoldenX1(bres.xa, bres.xb, bres.xc)
              x2 == GoldenX2(bres.xa, bres.xb, bres.xc) IN
          \E f1 \in Vals(fmap, x1) :
            LET fm1 == Put(fmap, x1, f1) IN
            \E f2 \in Vals(fm1, x2) :
              /\ fmap' = Put(fm1, x2, f2)
              /\ evals' = evals + 2
              /\ st' = [tol |-> GoldenTol(call.xtol), x0 |-> bres.xa, x1 |-> x1,
                        x2 |-> x2, x3 |-> bres.xc, f1 |-> f1, f2 |-> f2,
                        fun_calls |-> bres.fun_calls + GoldenFirstCalls, nit |-> 0]
              /\ pc' = "golden"
              /\ UNCHANGED result

\* golden.rs 58: |x3 - x0| <= tol * (|x1| + |x2|), tol in tenths
GoldenStop(s) == 10 * Abs(s.x3 - s.x0) <= s.tol * (Abs(s.x1) + Abs(s.x2))

\* golden.rs 57-78: one pass of the for loop that does not break
GoldenIter ==
  /\ pc = "golden"
  /\ st.nit < call.maxiter
  /\ ~GoldenStop(st)
  /\ IF st.f2 < st.f1
     THEN LET x2 == PerMille(Gr, st.x2) + PerMille(Gc, st.x3) IN
          \E y \in Vals(fmap, x2) :
            /\ fmap' = Put(fmap, x2, y)
            /\ st' = [st EXCEPT !.x0 = st.x1, !.x1 = st.x2, !.x2 = x2,
                                !.f1 = st.f2, !.f2 = y,
                                !.fun_calls = @ + 1, !.nit = @ + 1]
     ELSE LET x1 == PerMille(Gr, st.x1) + PerMille(Gc, st.x0) IN
          \E y \in Vals(fmap, x1) :
            /\ fmap' = Put(fmap, x1, y)
            /\ st' = [st EXCEPT !.x3 = st.x2, !.x2 = st.x1, !.x1 = x1,
                                !.f2 = st.f1, !.f1 = y,
                                !.fun_calls = @ + 1, !.nit = @ + 1]
  /\ evals' = evals + 1
  /\ UNCHANGED <<pc, call, br, bres, result>>

\* the budget test off by one: a loop that ran out still counts as success
GoldenSuccessLate(nit, maxiter) == nit <= maxiter

\* golden.rs 91
GoldenSuccess(nit, maxiter) == nit < maxiter

\* the result built from the higher of f1 and f2
GoldenReturnWorse ==
  /\ pc = "golden"
  /\ ~(st.nit < call.maxiter) \/ GoldenStop(st)
  /\ result' = IF GoldenSuccess(st.nit, call.maxiter)
               THEN IF st.f1 > st.f2
                    THEN Res("Ok", st.f1, st.fun_calls, TRUE, st.x1)
                    ELSE Res("Ok", st.f2, st.fun_calls, TRUE, st.x2)
               ELSE Err("MaxIterExceeded")
  /\ pc' = "done"
  /\ UNCHANGED <<call, fmap, evals, br, bres, st>>

\* golden.rs 80-102: the loop broke or ran out, the result is built
GoldenReturn ==
  /\ pc = "golden"
  /\ ~(st.nit < call.maxiter) \/ GoldenStop(st)
  /\ result' = IF GoldenSuccess(st.nit, call.maxiter)
               THEN IF st.f1 < st.f2
                    THEN Res("Ok", st.f1, st.fun_calls, TRUE, st.x1)
                    ELSE Res("Ok", st.f2, st.fun_calls, TRUE, st.x2)
               ELSE Err("MaxIterExceeded")
  /\ pc' = "done"
  /\ UNCHANGED <<call, fmap, evals, br, bres, st>>

\* ------------------------------------------------------------------- brent
\* brent.rs 32: the default tolerance 1.48e-8, in tenths on the grid
BrentDefaultTol == 0

\* brent.rs 23-33
BrentTol(xtol) == IF xtol.some THEN xtol.val ELSE BrentDefaultTol

\* brent.rs 17-35: the tolerance is validated, then bracket_default is called
CallBrent(xtol, mi) ==
  /\ pc = "idle"
  /\ call' = BracketDefault([NoCall EXCEPT !.routine = "brent", !.xtol = xtol,
                                           !.maxiter = mi])
  /\ IF XtolInvalid(xtol)
     THEN /\ result' = Err("ArgumentError")
          /\ pc' = "done"
          /\ UNCHANGED <<fmap, evals, br, bres, st>>
     ELSE /\ BracketStart(0, Scale)
          /\ UNCHANGED <<st, result>>

\* brent.rs 35-75: the bracket is taken over (an error is passed on by `?`)
BrentInit ==
  /\ pc = "bracketed"
  /\ call.routine = "brent"
  /\ UNCHANGED <<call, br, bres>>
  /\ IF bres.kind # "Ok"
     THEN /\ result' = Err(bres.kind)
          /\ pc' = "done"
          /\ UNCHANGED <<fmap, evals, st>>
     ELSE \E y \in Vals(fmap, bres.xb) :
            /\ fmap' = Put(fmap, bres.xb, y)
            /\ evals' = evals + 1
            /\ st' = [tol |-> BrentTol(call.xtol),
                      x |-> bres.xb, w |-> bres.xb, v |-> bres.xb,
                      fx |-> y, fw |-> y, fv |-> y,
                      a |-> IF bres.xa < bres.xc THEN bres.xa ELSE bres.xc,
                      b |-> IF bres.xa < bres.xc THEN bres.xc ELSE bres.xa,
                      deltax |-> 0, rat |-> 0, u |-> bres.xb,
                      fun_calls |-> bres.fun_calls + 1, iter |-> 0]
            /\ pc' = "brent"
            /\ UNCHANGED result

\* brent.rs 78: tol1 = tol * |x| + min_tol, tol in tenths
BrentTol1(s) == Quot(s.tol * Abs(s.x), 10) + MinTol

\* brent.rs 83: |x - xmid| < tol2 - 0.5 * (b - a), doubled
BrentConverged(s) ==
  Abs(2 * s.x - (s.a + s.b)) < 4 * BrentTol1(s) - (s.b - s.a)

\* brent.rs 88-94, 122-128: the golden section step, as <<deltax, rat>>
BrentGoldenStep(s) ==
  LET deltax == IF 2 * s.x >= s.a + s.b THEN s.a - s.x ELSE s.b - s.x
  IN <<deltax, PerMille(Cg, deltax)>>

\* the parabolic step taken without the test that accepts the fit
BrentStepNoFit(s) ==
  LET tol1 == BrentTol1(s)
  IN IF Abs(s.deltax) <= tol1
     THEN BrentGoldenStep(s)
     ELSE LET t1 == (s.x - s.w) * (s.fx - s.fv)
              t2 == (s.x - s.v) * (s.fx - s.fw)
              p0 == (s.x - s.v) * t2 - (s.x - s.w) * t1
              t3 == 2 * (t2 - t1)
              p == IF t3 > 0 THEN -p0 ELSE p0
              tmp2 == Abs(t3)
          IN IF tmp2 # 0 THEN <<s.rat, Quot(p, tmp2)>> ELSE BrentGoldenStep(s)

\* brent.rs 87-130: the step of this pass, as <<deltax, rat>>
BrentStep(s) ==
  LET tol1 == BrentTol1(s)
      tol2 == 2 * tol1
  IN IF Abs(s.deltax) <= tol1
     THEN BrentGoldenStep(s)
     ELSE LET t1 == (s.x - s.w) * (s.fx - s.fv)
              t2 == (s.x - s.v) * (s.fx - s.fw)
              p0 == (s.x - s.v) * t2 - (s.x - s.w) * t1
              t3 == 2 * (t2 - t1)
              p == IF t3 > 0 THEN -p0 ELSE p0
              tmp2 == Abs(t3)
              dx_temp == s.deltax
          IN IF /\ p > tmp2 * (s.a - s.x)
                /\ p < tmp2 * (s.b - s.x)
                /\ 2 * Abs(p) < Abs(tmp2 * dx_temp)
             THEN LET rat == Quot(p, tmp2)
                      u == s.x + rat
                  IN IF (u - s.a) < tol2 \/ (s.b - u) < tol2
                     THEN <<s.rat, IF (s.a + s.b) - 2 * s.x >= 0 THEN tol1 ELSE -tol1>>
                     ELSE <<s.rat, rat>>
             ELSE BrentGoldenStep(s)

\* brent.rs 131-139: the trial point, at least tol1 away from x
BrentTrial(s, rat) ==
  LET tol1 == BrentTol1(s)
  IN IF Abs(rat) < tol1
     THEN IF rat >= 0 THEN s.x + tol1 ELSE s.x - tol1
     ELSE s.x + rat

\* the bookkeeping with fw left behind when w is moved to u
BrentUpdateStaleFw(s, u, fu) ==
  IF fu > s.fx
  THEN LET s1 == IF u < s.x THEN [s EXCEPT !.a = u] ELSE [s EXCEPT !.b = u]
       IN IF (fu <= s.fw) \/ Abs(s.w - s.x) < ErrorMargin
          THEN [s1 EXCEPT !.v = s.w, !.w = u, !.fv = s.fw]
          ELSE IF (fu <= s.fv) \/ Abs(s.v - s.x) < ErrorMargin
                  \/ Abs(s.v - s.w) < ErrorMargin
          THEN [s1 EXCEPT !.v = u, !.fv = fu]
          ELSE s1
  ELSE LET s1 == IF u >= s.x THEN [s EXCEPT !.a = s.x] ELSE [s EXCEPT !.b = s.x]
       IN [s1 EXCEPT !.v = s.w, !.w = s.x, !.x = u,
                     !.fv = s.fw, !.fw = s.fx, !.fx = fu]

\* brent.rs 143-171: the bookkeeping after evaluate(u) returned fu
BrentUpdate(s, u, fu) ==
  IF fu > s.fx
  THEN LET s1 == IF u < s.x THEN [s EXCEPT !.a = u] ELSE [s EXCEPT !.b = u]
       IN IF (fu <= s.fw) \/ Abs(s.w - s.x) < ErrorMargin
          THEN [s1 EXCEPT !.v = s.w, !.w = u, !.fv = s.fw, !.fw = fu]
          ELSE IF (fu <= s.fv) \/ Abs(s.v - s.x) < ErrorMargin
                  \/ Abs(s.v - s.w) < ErrorMargin
          THEN [s1 EXCEPT !.v = u, !.fv = fu]
          ELSE s1
  ELSE LET s1 == IF u >= s.x THEN [s EXCEPT !.a = s.x] ELSE [s EXCEPT !.b = s.x]
       IN [s1 EXCEPT !.v = s.w, !.w = s.x, !.x = u,
                     !.fv = s.fw, !.fw = s.fx, !.fx = fu]

\* brent.rs 77-173: one pass of the while loop that does not break
BrentIter ==
  /\ pc = "brent"
  /\ st.iter < call.maxiter
  /\ ~BrentConverged(st)
  /\ LET step == BrentStep(st)
         u == BrentTrial(st, step[2])
         s1 == [st EXCEPT !.deltax = step[1], !.rat = step[2], !.u = u]
     IN \E fu \in Vals(fmap, u) :
          /\ fmap' = Put(fmap, u, fu)
          /\ st' = [BrentUpdate(s1, u, fu) EXCEPT !.fun_calls = @ + 1, !.iter = @ + 1]
  /\ evals' = evals + 1
  /\ UNCHANGED <<pc, call, br, bres, result>>

\* success reported as golden reports it
BrentSuccessFlagged == st.iter < call.maxiter

\* brent.rs 178
BrentSuccess == TRUE

\* brent.rs 175-180: the loop broke or ran out, the result is built
BrentReturn ==
  /\ pc = "brent"
  /\ ~(st.iter < call.maxiter) \/ BrentConverged(st)
  /\ result' = Res("Ok", st.fx, st.fun_calls, BrentSuccess, st.x)
  /\ pc' = "done"
  /\ UNCHANGED <<call, fmap, evals, br, bres, st>>

\* ----------------------------------------------------------------- bounded
\* bounded.rs 5-13: sign, on the grid |number| < f64::EPSILON is number = 0
Sign(number) == IF number = 0 THEN 0 ELSE IF number > 0 THEN 1 ELSE -1

\* bounded.rs 25-31
ZeroOrNot(a) == IF a = 0 THEN 1 ELSE 0

\* bounded.rs 38-46
ArgMax(a, b) == IF a > b THEN a ELSE IF b > a THEN b ELSE a

\* bounded.rs 73: the lower bound exceeds the upper bound
BoundsInvalid(x1, x2) == x2 < x1

\* bounded.rs 99, 185: tol1 = sqrt_eps * |xf| + xatol / 3
BoundedTol1(xf) == (Abs(xf) \div SqrtEpsInv) + Quot(Xatol, 3)

\* bounded.rs 110: |xf - xm| > tol2 - 0.5 * (b - a), doubled; xm is
\* 0.5 * (a + b) whenever it is read (bounded.rs 97, 184)
BoundedContinues(s) == Abs(2 * s.xf - (s.a + s.b)) > 2 * s.tol2 - (s.b - s.a)

\* bounded.rs 65-108: the bounds are validated, the first point is evaluated
CallBounded(x1, x2, mi) ==
  /\ pc = "idle"
  /\ call' = [NoCall EXCEPT !.routine = "bounded", !.lower = x1, !.upper = x2,
                            !.maxiter = mi]
  /\ UNCHANGED <<br, bres>>
  /\ IF BoundsInvalid(x1, x2)
     THEN /\ result' = Err("ArgumentError")
          /\ pc' = "done"
          /\ UNCHANGED <<fmap, evals, st>>
     ELSE LET fulc == x1 + PerMille(GoldenMean, x2 - x1)
              tol1 == BoundedTol1(fulc) IN
          \E fx \in Vals(fmap, fulc) :
            /\ fmap' = Put(fmap, fulc, fx)
            /\ evals' = evals + 1
            /\ st' = [a |-> x1, b |-> x2, fulc |-> fulc, nfc |-> fulc, xf |-> fulc,
                      rat |-> 0, e |-> 0, x |-> fulc, fx |-> fx, num |-> 1,
                      ffulc |-> fx, fnfc |-> fx, tol1 |-> tol1, tol2 |-> 2 * tol1,
                      golden |-> TRUE, fit |-> "none", success |-> TRUE]
            /\ pc' = "bounded"
            /\ UNCHANGED result

\* bounded.rs 137: what the flag golden becomes when the parabola is accepted
\* (bounded.rs 115 sets it before the fit, and nothing clears it)
GoldenAfterAccept == TRUE

\* bounded.rs 111-139: the parabolic fit of one pass of the while loop
BoundedFitOf(s) ==
  IF Abs(s.e) > s.tol1
  THEN LET r0 == (s.xf - s.nfc) * (s.fx - s.ffulc)
           q0 == (s.xf - s.ffulc) * (s.fx - s.fnfc)
           p0 == (s.xf - s.fulc) * q0 - (s.xf - s.nfc) * r0
           q1 == 2 * (q0 - r0)
           p == IF q1 > 0 THEN -p0 ELSE p0
           q == Abs(q1)
           r == s.e
           s1 == [s EXCEPT !.e = s.rat]
       IN IF /\ 2 * Abs(p) < Abs(q * r)
             /\ p > q * (s.a - s.xf)
             /\ p < q * (s.b - s.xf)
          THEN LET rat == Quot(p, q)
                   x == s.xf + rat
                   d == (s.a + s.b) - 2 * s.xf
                   si == Sign(d) + ZeroOrNot(d)
               IN [s1 EXCEPT !.x = x, !.fit = "accepted",
                             !.golden = GoldenAfterAccept,
                             !.rat = IF (x - s.a) < s.tol2 \/ (s.b - x) < s.tol2
                                     THEN s.tol1 * si ELSE rat]
          ELSE [s1 EXCEPT !.fit = "rejected", !.golden = TRUE]
  ELSE [s EXCEPT !.fit = "none", !.golden = TRUE]

BoundedFit ==
  /\ pc = "bounded"
  /\ BoundedContinues(st)
  /\ st' = BoundedFitOf(st)
  /\ pc' = "bstep"
  /\ UNCHANGED <<call, fmap, evals, br, bres, result>>

\* bounded.rs 141-149: the golden section step replaces e and rat
BoundedGolden(s) ==
  IF s.golden
  THEN LET e == IF 2 * s.xf >= s.a + s.b THEN s.a - s.xf ELSE s.b - s.xf
       IN [s EXCEPT !.e = e, !.rat = PerMille(GoldenMean, e)]
  ELSE s

\* bounded.rs 151-152: the point evaluated, at least tol1 away from xf
BoundedTrial(s) ==
  LET si == Sign(s.rat) + ZeroOrNot(s.rat)
  IN s.xf + si * ArgMax(Abs(s.rat), s.tol1)

\* the bookkeeping with the ends of the interval taken for one another when
\* the new point is no worse
BoundedUpdateSwapped(s, x, fu) ==
  IF fu <= s.fx
  THEN LET s1 == IF x >= s.xf THEN [s EXCEPT !.b = s.xf] ELSE [s EXCEPT !.a = s.xf]
       IN [s1 EXCEPT !.fulc = s.nfc, !.ffulc = s.fnfc, !.nfc = s.xf, !.fnfc = s.fx,
                     !.xf = x, !.fx = fu]
  ELSE IF x < s.xf THEN [s EXCEPT !.a = x] ELSE [s EXCEPT !.b = x]

\* bounded.rs 156-182: the bookkeeping after evaluate(x) returned fu
BoundedUpdate(s, x, fu) ==
  IF fu <= s.fx
  THEN LET s1 == IF x >= s.xf THEN [s EXCEPT !.a = s.xf] ELSE [s EXCEPT !.b = s.xf]
       IN [s1 EXCEPT !.fulc = s.nfc, !.ffulc = s.fnfc, !.nfc = s.xf, !.fnfc = s.fx,
                     !.xf = x, !.fx = fu]
  ELSE LET s1 == IF x < s.xf THEN [s EXCEPT !.a = x] ELSE [s EXCEPT !.b = x]
       IN IF (fu <= s.fnfc) \/ Abs(s.nfc - s.xf) < ErrorMargin
          THEN [s1 EXCEPT !.fulc = s.nfc, !.ffulc = s.fnfc, !.nfc = x, !.fnfc = fu]
          ELSE IF (fu <= s.ffulc) \/ Abs(s.fulc - s.xf) < ErrorMargin
                  \/ Abs(s.fulc - s.nfc) < ErrorMargin
          THEN [s1 EXCEPT !.fulc = x, !.ffulc = fu]
          ELSE s1

\* bounded.rs 188: the budget test, on the number of evaluations
BoundedExhausted(num, maxiter) == num >= maxiter

\* bounded.rs 141-191: the step, the evaluation and the budget test
BoundedStep ==
  /\ pc = "bstep"
  /\ LET s1 == BoundedGolden(st)
         x == BoundedTrial(s1)
     IN \E fu \in Vals(fmap, x) :
          LET s2 == BoundedUpdate([s1 EXCEPT !.x = x], x, fu)
              tol1 == BoundedTol1(s2.xf)
              out == BoundedExhausted(st.num + 1, call.maxiter)
          IN /\ fmap' = Put(fmap, x, fu)
             /\ st' = [s2 EXCEPT !.num = @ + 1, !.tol1 = tol1, !.tol2 = 2 * tol1,
                                 !.success = IF out THEN FALSE ELSE @]
             /\ pc' = IF out THEN "bbreak" ELSE "bounded"
  /\ evals' = evals + 1
  /\ UNCHANGED <<call, br, bres, result>>

\* bounded.rs 194-199: the loop ended or broke, the result is built
BoundedReturn ==
  /\ \/ pc = "bounded" /\ ~BoundedContinues(st)
     \/ pc = "bbreak"
  /\ result' = Res("Ok", st.fx, st.num, st.success, st.xf)
  /\ pc' = "done"
  /\ UNCHANGED <<call, fmap, evals, br, bres, st>>

\* the bounds bounded is called with
Bounds == (-MaxBound) .. MaxBound

\* a caller calls one routine, once
Call ==
  /\ pc = "idle"
  /\ \/ \E s \in BracketSeeds, gl \in GrowLimits, mi \in 0 .. MaxIter :
          CallBracket(s[1], s[2], gl, mi)
     \/ \E xtol \in XtolArgs, mi \in 0 .. MaxIter : CallGolden(xtol, mi)
     \/ \E xtol \in XtolArgs, mi \in 0 .. MaxIter : CallBrent(xtol, mi)
     \/ \E x1 \in Bounds, x2 \in Bounds, mi \in 0 .. MaxBoundedIter :
          CallBounded(x1, x2, mi)

Next ==
  \/ Call
  \/ BracketIter
  \/ BracketExit
  \/ BracketDone
  \/ GoldenInit
  \/ GoldenIter
  \/ GoldenReturn
  \/ BrentInit
  \/ BrentIter
  \/ BrentReturn
  \/ BoundedFit
  \/ BoundedStep
  \/ BoundedReturn

Spec == Init /\ [][Next]_vars

\* ------------------------------------------------------------------ claims
Returned(routine) == pc = "done" /\ call.routine = routine

\* the call in progress passed validation and its bracketing returned a bracket
Bracketed == bres.kind = "Ok"

\* C1: a malformed call (bounded with lower > upper, brent or golden with a
\* supplied xtol < 0) returns ArgumentError at once: the objective has not
\* been evaluated, neither by the routine nor by bracketing.
ValidationIsEager ==
  (\/ call.routine = "bounded" /\ call.lower > call.upper
   \/ call.routine \in {"brent", "golden"} /\ call.xtol.some /\ call.xtol.val < 0)
  => /\ pc = "done"
     /\ result.kind = "ArgumentError"
     /\ evals = 0
     /\ fmap = EmptyMap

\* C1: golden was called with a negative xtol and has returned
ValidationWitness ==
  /\ Returned("golden")
  /\ call.xtol.some /\ call.xtol.val < 0
  /\ result.kind = "ArgumentError"

\* C2: bounded with lower <= upper never returns an error, and success tells
\* whether the state at return satisfies the convergence test
\* |xf - xm| <= tol2 - (b - a)/2: success = false exactly when it does not.
BoundedSuccessIsConvergence ==
  (Returned("bounded") /\ call.lower <= call.upper)
  => /\ result.kind = "Ok"
     /\ result.success <=> ~BoundedContinues(st)

\* C3: golden returns no partial result: a returned Ok has success = true and
\* a final window that satisfies the stopping test, and a run whose loop ended
\* on a window that does not satisfy it returns MaxIterExceeded.
GoldenNoPartialResult ==
  (Returned("golden") /\ Bracketed)
  => /\ result.kind \in {"Ok", "MaxIterExceeded"}
     /\ result.kind = "Ok" => result.success /\ GoldenStop(st)
     /\ ~GoldenStop(st) => result.kind = "MaxIterExceeded"

\* C3: golden returned Ok after at least one pass of its loop
GoldenOkWitness ==
  /\ Returned("golden")
  /\ result.kind = "Ok"
  /\ st.nit > 0

\* C4: after a successful bracketing, golden returns Ok with success = true
\* whenever the stopping test holds on the window reached after at most
\* maxiter passes of the loop, for every maxiter, 0 included.
GoldenOkWheneverStopped ==
  (Returned("golden") /\ Bracketed /\ GoldenStop(st))
  => result.kind = "Ok" /\ result.success

\* C5: after a successful bracketing, brent returns Ok with success = true,
\* also when maxiter passes of the loop went by without convergence.
BrentAlwaysSucceeds ==
  (Returned("brent") /\ Bracketed)
  => result.kind = "Ok" /\ result.success

\* C5: brent returned after using up maxiter > 0 passes without convergence
BrentExhaustedWitness ==
  /\ Returned("brent")
  /\ Bracketed
  /\ call.maxiter > 0
  /\ st.iter = call.maxiter
  /\ ~BrentConverged(st)

\* C6: nfev of a returned result is the number of calls of evaluate made
\* during the call, and bracket's fun_calls is the number bracket made.
NfevIsExact ==
  /\ (pc = "bracketed" /\ Bracketed) => bres.fun_calls = evals
  /\ (pc = "done" /\ call.routine \in {"bounded", "brent", "golden"}
        /\ result.kind = "Ok") => result.nfev = evals

\* C7: the x bounded returns lies in [lower, upper], with success true or
\* false: xf stays in [a, b], and [a, b] stays in [lower, upper].
BoundedStaysInBounds ==
  /\ (call.routine = "bounded" /\ pc \in {"bounded", "bstep", "bbreak", "done"}
        /\ call.lower <= call.upper)
     => /\ call.lower <= st.a /\ st.a <= st.xf
        /\ st.xf <= st.b /\ st.b <= call.upper
  /\ (Returned("bounded") /\ result.kind = "Ok")
     => call.lower <= result.x /\ result.x <= call.upper

\* C7: bounded ran out of budget after several steps inside a proper interval
BoundedBoundsWitness ==
  /\ Returned("bounded")
  /\ result.kind = "Ok"
  /\ ~result.success
  /\ st.num >= 3
  /\ call.lower < st.a
  /\ st.b < call.upper

\* the objective's value at a point bracket returned
F(x) == fmap[x]

\* C8: a triple bracket returns is a downhill bracket:
\* f(xa) > f(xb) and f(xb) < f(xc).
BracketIsDownhill ==
  (pc = "bracketed" /\ Bracketed)
  => F(bres.xa) > F(bres.xb) /\ F(bres.xb) < F(bres.xc)

\* C9: bracket never begins more than maxiter passes of its loop (iter counts
\* the passes that got beyond the budget test), so that with f(xc) < f(xb)
\* still true after maxiter passes what it returns is MaxIterExceeded.
BracketKeepsBudget == br.iter <= call.bmaxiter

\* C10: in a pass of bounded's loop in which the parabola was fitted and
\* accepted, the point evaluated next is the one the parabolic step gives
\* (xf + rat, at least tol1 away from xf), not the golden section point.
BoundedTakesParabolicStep ==
  [][(pc = "bstep" /\ st.fit = "accepted") => st'.x = BoundedTrial(st)]_vars

\* C11: for distinct seeds xa # xb, a triple bracket returns is monotone in
\* the search direction: xb - xa and xc - xb are non-zero and have the same
\* sign, so that xb lies strictly between xa and xc (xa < xb or xa > xb).
BracketIsMonotone ==
  (pc = "bracketed" /\ Bracketed /\ call.xa # call.xb)
  => SgnMul(bres.xb - bres.xa, bres.xc - bres.xb) > 0

\* C11: bracket swapped distinct seeds, went through its loop and returned a
\* triple that descends towards lower x
BracketMonotoneWitness ==
  /\ pc = "bracketed"
  /\ Bracketed
  /\ call.routine = "bracket"
  /\ call.xa < call.xb
  /\ br.iter >= 1
  /\ bres.xa > bres.xb

\* C12: brent's loop keeps a < b and a <= x <= b at the start of every pass;
\* the trial point u a pass evaluates lies in the [a, b] the pass started
\* with, also when the step is floored to x +/- tol1; and the width b - a
\* never increases from one pass to the next.
BrentKeepsInterval ==
  /\ [](pc = "brent" => st.a < st.b /\ st.a <= st.x /\ st.x <= st.b)
  /\ [][(pc = "brent" /\ pc' = "brent" /\ st'.iter = st.iter + 1)
         => /\ st.a <= st'.u /\ st'.u <= st.b
            /\ st'.b - st'.a <= st.b - st.a]_vars

\* C12: brent is at the head of its loop after two passes, the last of which
\* evaluated a floored step x +/- tol1 that did not improve on x, inside an
\* interval narrower than the bracket
BrentIntervalWitness ==
  /\ pc = "brent"
  /\ st.iter >= 2
  /\ Abs(st.rat) < BrentTol1(st)
  /\ Abs(st.u - st.x) = BrentTol1(st)
  /\ st.a < st.x /\ st.x < st.b
  /\ st.b - st.a < Abs(bres.xc - bres.xa)

\* C13: the fun that bounded, brent and golden return is the objective's
\* value at the x they return, and throughout each loop the cached values
\* belong to their points: fx, fw, fv to x, w, v in brent, fx, fnfc, ffulc to
\* xf, nfc, fulc in bounded, f1, f2 to x1, x2 in golden.
ValuesStayPaired ==
  /\ (pc = "done" /\ call.routine \in {"bounded", "brent", "golden"}
        /\ result.kind = "Ok")
     => result.fun = F(result.x)
  /\ pc = "brent"
     => st.fx = F(st.x) /\ st.fw = F(st.w) /\ st.fv = F(st.v)
  /\ pc \in {"bounded", "bstep", "bbreak"}
     => st.fx = F(st.xf) /\ st.fnfc = F(st.nfc) /\ st.ffulc = F(st.fulc)
  /\ pc = "golden"
     => st.f1 = F(st.x1) /\ st.f2 = F(st.x2)

\* C13: brent returned after passes that left x, w and v at three points with
\* three different values
ValuesPairedWitness ==
  /\ Returned("brent")
  /\ result.kind = "Ok"
  /\ st.iter >= 3
  /\ st.fx < st.fw /\ st.fw < st.fv
  /\ result.x # bres.xb

\* bounded, brent or golden has returned a result
Minimised ==
  /\ pc = "done"
  /\ call.routine \in {"bounded", "brent", "golden"}
  /\ result.kind = "Ok"

\* p lies beyond the xc of the bracket that bracketing returned
BeyondBracket(p) ==
  call.routine # "bounded" /\ SgnMul(p - bres.xc, bres.xc - bres.xb) > 0

\* C14, as stated: the fun that bounded, brent and golden return is no greater
\* than any value of the objective observed during the call, the values that
\* bracketing evaluated included.
FunIsBestObserved ==
  Minimised => \A p \in DOMAIN fmap : result.fun <= F(p)

\* C14, amended: the fun that bounded, brent and golden return is no greater
\* than any value of the objective observed during the call at a point that
\* is not beyond the xc of the returned bracket; beyond it lies the xc that
\* bracket's return on fw > fb dropped, where the objective is lower than at
\* xb.
FunIsBestUpToBracket ==
  Minimised => \A p \in DOMAIN fmap : ~BeyondBracket(p) => result.fun <= F(p)

\* C14: brent returned after at least two passes, and bracketing had dropped
\* a point whose value is lower than the fun returned
FunIsBestWitness ==
  /\ Returned("brent")
  /\ result.kind = "Ok"
  /\ st.iter >= 2
  /\ result.x # bres.xb
  /\ \E p \in DOMAIN fmap : BeyondBracket(p) /\ F(p) < result.fun

====
